---- MODULE Spec2Model ----
(***************************************************************************)
(* A model of the amoud pipeline: lexer (src/src/lexer.rs), recursive-     *)
(* descent parser (src/src/parser.rs) and tree-walking interpreter         *)
(* (src/src/interpreter.rs), driven as in src/src/main.rs.                 *)
(*                                                                         *)
(* Characters are Unicode scalar values (integers); a source text is a     *)
(* sequence of them.  An f64 is modelled as an exact fraction              *)
(* [num, den] in lowest terms with den > 0: rounding, infinities and NaN   *)
(* are outside the model.                                                  *)
(***************************************************************************)
EXTENDS Integers, Sequences, FiniteSets, TLC

VARIABLES
    input,      \* the source text handed to lexer::run
    chars,      \* Lexer.chars: the characters not yet consumed
    tokens,     \* lexer::run's res, then the tokens handed to the parser
    ast,        \* the statements parser::run returned
    stage,      \* where main is: "lex", "parse", "interpret", "done", "panic"
    pc,         \* index in ast of the next statement Interpreter::interpret executes
    variables,  \* Interpreter.variables
    lastValue,  \* what the last call of execute from interpret's loop returned
    error,      \* the Err(e) interpreter::run prints, or the panic message
    log         \* history: what execute did, in order

vars == <<input, chars, tokens, ast, stage, pc, variables, lastValue, error, log>>

---------------------------------------------------------------------------
(* Bounds of the checked inputs.                                           *)
MaxRawLen == 4
MaxChain == 3
MaxChunks == 4

---------------------------------------------------------------------------
(* f64 arithmetic, as exact fractions.                                     *)

Abs(i) == IF i < 0 THEN -i ELSE i

RECURSIVE GCD(_, _)
GCD(a, b) == IF b = 0 THEN a ELSE GCD(b, a % b)

Frac(n, d) ==
    LET g == GCD(Abs(n), Abs(d))
        s == IF d < 0 THEN -1 ELSE 1
    IN  [num |-> (s * n) \div g, den |-> (s * d) \div g]

F(i) == [num |-> i, den |-> 1]

FAdd(l, r) == Frac(l.num * r.den + r.num * l.den, l.den * r.den)
FSub(l, r) == Frac(l.num * r.den - r.num * l.den, l.den * r.den)
FMul(l, r) == Frac(l.num * r.num, l.den * r.den)
FDiv(l, r) == Frac(l.num * r.den, l.den * r.num)
FLt(l, r) == l.num * r.den < r.num * l.den
FAbs(l) == [num |-> Abs(l.num), den |-> l.den]

---------------------------------------------------------------------------
(* Characters.                                                             *)

CH_QUOTE == 34
CH_LPAREN == 40
CH_RPAREN == 41
CH_STAR == 42
CH_PLUS == 43
CH_COMMA == 44
CH_MINUS == 45
CH_DOT == 46
CH_SLASH == 47
CH_LT == 60
CH_EQUALS == 61
CH_GT == 62
CH_BACKSLASH == 92
CH_SPACE == 32
CH_HASH == 35
ARABIC_ZERO == 1632
ARABIC_NINE == 1641
ALEF == 1575
YEH == 1610
ALEF_MADDA == 1570
ALEF_HAMZA_ABOVE == 1571
ALEF_HAMZA_BELOW == 1573
TEH_MARBUTA == 1577
ALEF_MAKSURA == 1609

\* char::is_whitespace: the Unicode White_Space property
WhiteSpace ==
    (9..13) \cup {32, 133, 160, 5760} \cup (8192..8202)
        \cup {8232, 8233, 8239, 8287, 12288}

ArabicDigits == ARABIC_ZERO..ARABIC_NINE

IdentifierStart == (ALEF..YEH) \cup {ALEF_MADDA, ALEF_HAMZA_ABOVE, ALEF_HAMZA_BELOW}

IdentifierPart ==
    (ALEF..YEH) \cup
        {ALEF_MADDA, ALEF_HAMZA_ABOVE, ALEF_HAMZA_BELOW, TEH_MARBUTA, ALEF_MAKSURA}

\* the keyword table of read_identifier_or_keyword
KW_VARIABLE == <<1605, 1578, 1594, 1610, 1585>>
KW_IF == <<1604, 1608>>
KW_THEN == <<1601>>
KW_ELSE == <<1608, 1573, 1604, 1575>>
KW_TRUE == <<1606, 1593, 1605>>
KW_FALSE == <<1604, 1575>>

---------------------------------------------------------------------------
(* Lexer.                                                                  *)

\* Token: a fieldless token is [type]; Identifier carries name, Number
\* carries n, String carries s.
Tok(t) == [type |-> t]
None == [type |-> "None"]

RECURSIVE skip_whitespace(_)
skip_whitespace(cs) ==
    IF cs # <<>> /\ Head(cs) \in WhiteSpace
    THEN skip_whitespace(Tail(cs))
    ELSE cs

DigitValue(c) ==
    CASE c = 1632 -> F(0)
      [] c = 1633 -> F(1)
      [] c = 1634 -> F(2)
      [] c = 1635 -> F(3)
      [] c = 1636 -> F(4)
      [] c = 1637 -> F(5)
      [] c = 1638 -> F(6)
      [] c = 1639 -> F(7)
      [] c = 1640 -> F(8)
      [] c = 1641 -> F(9)

\* the fold's closure: `',' => return acc` leaves the closure with acc,
\* `_ => acc` is the match arm's value and yields acc * 10 + acc
NumeralStepSeparatorShifts(acc, c) ==
    IF c \in ArabicDigits
    THEN FAdd(FMul(acc, F(10)), DigitValue(c))
    ELSE FMul(acc, F(10))
NumeralStep(acc, c) ==
    IF c \in ArabicDigits
    THEN FAdd(FMul(acc, F(10)), DigitValue(c))
    ELSE IF c = CH_COMMA
         THEN acc
         ELSE FAdd(FMul(acc, F(10)), acc)

RECURSIVE NumeralFold(_, _)
NumeralFold(acc, s) ==
    IF s = <<>> THEN acc ELSE NumeralFold(NumeralStep(acc, Head(s)), Tail(s))

arabic_numeral_to_float(s) == NumeralFold(F(0), s)

\* read_number's loop: number is the text collected so far
RECURSIVE ReadNumberLoop(_, _)
ReadNumberLoop(number, cs) ==
    IF cs # <<>> /\ (Head(cs) \in ArabicDigits \/ Head(cs) = CH_COMMA)
    THEN ReadNumberLoop(Append(number, Head(cs)), Tail(cs))
    ELSE [text |-> number, chars |-> cs]

read_number(first_digit, cs) ==
    LET r == ReadNumberLoop(<<first_digit>>, cs)
    IN  [tok |-> [type |-> "Number", n |-> arabic_numeral_to_float(r.text)],
         chars |-> r.chars]

\* read_string's loop: string is the text collected so far
RECURSIVE ReadStringLoop(_, _, _)
ReadStringLoop(string, escaped, cs) ==
    IF cs = <<>>
    THEN [text |-> string, chars |-> cs]
    ELSE LET ch == Head(cs) IN
         IF ch = CH_QUOTE /\ ~escaped
         THEN [text |-> string, chars |-> Tail(cs)]
         ELSE IF ch = CH_BACKSLASH /\ ~escaped
         THEN ReadStringLoop(string, TRUE, Tail(cs))
         ELSE ReadStringLoop(Append(string, ch), FALSE, Tail(cs))

read_string(cs) ==
    LET r == ReadStringLoop(<<>>, FALSE, cs)
    IN  [tok |-> [type |-> "String", s |-> r.text], chars |-> r.chars]

\* read_identifier_or_keyword's loop
RECURSIVE ReadIdentifierLoop(_, _)
ReadIdentifierLoop(identifier, cs) ==
    IF cs # <<>> /\ Head(cs) \in IdentifierPart
    THEN ReadIdentifierLoop(Append(identifier, Head(cs)), Tail(cs))
    ELSE [text |-> identifier, chars |-> cs]

read_identifier_or_keyword(first_char, cs) ==
    LET r == ReadIdentifierLoop(<<first_char>>, cs)
        t == CASE r.text = KW_VARIABLE -> Tok("VariableKeyword")
               [] r.text = KW_IF -> Tok("IfKeyword")
               [] r.text = KW_THEN -> Tok("ThenKeyword")
               [] r.text = KW_ELSE -> Tok("ElseKeyword")
               [] r.text = KW_TRUE -> Tok("True")
               [] r.text = KW_FALSE -> Tok("False")
               [] OTHER -> [type |-> "Identifier", name |-> r.text]
    IN  [tok |-> t, chars |-> r.chars]

\* the token of '>'
GreaterThanTokenGT == Tok("GT")
GreaterThanToken == Tok("LT")

\* next_token: [tok, chars], tok = None for Rust's None, chars the iterator after the call
next_token(cs0) ==
    LET cs == skip_whitespace(cs0) IN
    IF cs = <<>>
    THEN [tok |-> None, chars |-> cs]
    ELSE LET ch == Head(cs)
             rest == Tail(cs)
         IN  CASE ch = CH_PLUS -> [tok |-> Tok("Plus"), chars |-> rest]
               [] ch = CH_MINUS -> [tok |-> Tok("Minus"), chars |-> rest]
               [] ch = CH_STAR -> [tok |-> Tok("Multiply"), chars |-> rest]
               [] ch = CH_SLASH -> [tok |-> Tok("Divide"), chars |-> rest]
               [] ch = CH_LT -> [tok |-> Tok("LT"), chars |-> rest]
               [] ch = CH_GT -> [tok |-> GreaterThanToken, chars |-> rest]
               [] ch = CH_LPAREN -> [tok |-> Tok("LeftParen"), chars |-> rest]
               [] ch = CH_RPAREN -> [tok |-> Tok("RightParen"), chars |-> rest]
               [] ch = CH_EQUALS -> [tok |-> Tok("Equals"), chars |-> rest]
               [] ch = CH_DOT -> [tok |-> Tok("Dot"), chars |-> rest]
               [] ch = CH_QUOTE -> read_string(rest)
               [] ch \in ArabicDigits -> read_number(ch, rest)
               [] ch \in IdentifierStart -> read_identifier_or_keyword(ch, rest)
               [] OTHER -> [tok |-> None, chars |-> rest]

\* lexer::run as a function: the tokens up to the first None
RECURSIVE RunLoop(_, _)
RunLoop(res, cs) ==
    LET r == next_token(cs) IN
    IF r.tok = None THEN res ELSE RunLoop(Append(res, r.tok), r.chars)

run(text) == RunLoop(<<>>, text)

---------------------------------------------------------------------------
(* Parser.  A Result is [ok |-> TRUE, node, tokens] (tokens: what the      *)
(* Peekable iterator still holds) or [ok |-> FALSE, err].                  *)

Ok(node, toks) == [ok |-> TRUE, node |-> node, tokens |-> toks]
Err(e) == [ok |-> FALSE, err |-> e]

\* an error message, and one formatted with an argument
Msg(m) == [msg |-> m]
MsgOf(m, arg) == [msg |-> m, arg |-> arg]

\* Option<Vec<ASTNode>>: <<>> is None, <<v>> is Some(v)
NoneBranch == <<>>
SomeBranch(v) == <<v>>

BinaryOp(left, operator, right) ==
    [type |-> "BinaryOp", left |-> left, operator |-> operator, right |-> right]

\* expect: consumes one token
expect(expected, toks) ==
    IF toks # <<>> /\ Head(toks) = Tok(expected)
    THEN Ok(None, Tail(toks))
    ELSE Err(MsgOf("Expected", expected))

\* parse_comparison's match on the peeked token
ComparisonOperator(t) ==
    CASE t.type = "LT" -> "LT"
      [] t.type = "GT" -> "GT"
      [] t.type = "LTE" -> "LTE"
      [] t.type = "GTE" -> "GTE"
      [] t.type = "EQ" -> "EQ"
      [] t.type = "NEQ" -> "NEQ"
      [] OTHER -> "break"

\* Each call of a parsing function is followed by `?`: the operator named
\* ...Then is the rest of the calling function, given that call's Result.

RECURSIVE parse_statement(_)
RECURSIVE parse_expression(_)
RECURSIVE ComparisonLoop(_, _)
RECURSIVE AdditiveLoop(_, _)
RECURSIVE MultiplicativeLoop(_, _)
RECURSIVE StatementsUntilElse(_, _)
RECURSIVE StatementsUntilEnd(_, _)

\* parse_primary after `let expr = self.parse_expression()?`
ParenthesisedThen(expr) ==
    IF ~expr.ok THEN expr
    ELSE LET e == expect("RightParen", expr.tokens) IN
         IF ~e.ok THEN e ELSE Ok(expr.node, e.tokens)

parse_primary(toks) ==
    IF toks = <<>>
    THEN Err(Msg("Unexpected token"))
    ELSE LET t == Head(toks)
             rest == Tail(toks)
         IN  CASE t.type = "Number" -> Ok([type |-> "Number", n |-> t.n], rest)
               [] t.type = "String" -> Ok([type |-> "StringLiteral", s |-> t.s], rest)
               [] t.type = "True" -> Ok([type |-> "BooleanLiteral", b |-> TRUE], rest)
               [] t.type = "False" -> Ok([type |-> "BooleanLiteral", b |-> FALSE], rest)
               [] t.type = "Identifier" -> Ok([type |-> "Variable", name |-> t.name], rest)
               [] t.type = "LeftParen" -> ParenthesisedThen(parse_expression(rest))
               [] OTHER -> Err(Msg("Unexpected token"))

\* parse_multiplicative's loop body after `let right = self.parse_primary()?`
MultiplicativeThen(left, op, right) ==
    IF ~right.ok THEN right
    ELSE MultiplicativeLoop(BinaryOp(left, op, right.node), right.tokens)

\* parse_multiplicative's while loop
MultiplicativeLoop(left, toks) ==
    IF toks # <<>> /\ Head(toks).type \in {"Multiply", "Divide"}
    THEN MultiplicativeThen(left,
                            IF Head(toks).type = "Multiply" THEN "Multiply" ELSE "Divide",
                            parse_primary(Tail(toks)))
    ELSE Ok(left, toks)

\* parse_multiplicative after `let mut left = self.parse_primary()?`
MultiplicativeFrom(left) ==
    IF ~left.ok THEN left ELSE MultiplicativeLoop(left.node, left.tokens)

parse_multiplicative(toks) == MultiplicativeFrom(parse_primary(toks))

\* the right operand of + and -: `self.parse_multiplicative()`
AdditiveOperandPrimary(toks) == parse_primary(toks)
AdditiveOperand(toks) == parse_multiplicative(toks)

\* parse_additive's loop body after `let right = self.parse_multiplicative()?`
AdditiveThen(left, op, right) ==
    IF ~right.ok THEN right
    ELSE AdditiveLoop(BinaryOp(left, op, right.node), right.tokens)

\* parse_additive's while loop
AdditiveLoop(left, toks) ==
    IF toks # <<>> /\ Head(toks).type \in {"Plus", "Minus"}
    THEN AdditiveThen(left,
                      IF Head(toks).type = "Plus" THEN "Plus" ELSE "Minus",
                      AdditiveOperand(Tail(toks)))
    ELSE Ok(left, toks)

\* parse_additive after `let mut left = self.parse_multiplicative()?`
AdditiveFrom(left) ==
    IF ~left.ok THEN left ELSE AdditiveLoop(left.node, left.tokens)

parse_additive(toks) == AdditiveFrom(parse_multiplicative(toks))

\* parse_comparison's loop body after `let right = self.parse_additive()?`
ComparisonThen(expr, op, right) ==
    IF ~right.ok THEN right
    ELSE ComparisonLoop(BinaryOp(expr, op, right.node), right.tokens)

\* parse_comparison's loop
ComparisonLoop(expr, toks) ==
    IF toks = <<>> \/ ComparisonOperator(Head(toks)) = "break"
    THEN Ok(expr, toks)
    ELSE ComparisonThen(expr, ComparisonOperator(Head(toks)), parse_additive(Tail(toks)))

\* parse_comparison after `let mut expr = self.parse_additive()?`
ComparisonFrom(expr) ==
    IF ~expr.ok THEN expr ELSE ComparisonLoop(expr.node, expr.tokens)

parse_comparison(toks) == ComparisonFrom(parse_additive(toks))

parse_expression(toks) == parse_comparison(toks)

\* parse_variable_declaration after `let value = self.parse_expression()?`
DeclarationThen(var_name, value) ==
    IF ~value.ok THEN value
    ELSE LET dot == expect("Dot", value.tokens) IN
         IF ~dot.ok THEN dot
         ELSE Ok([type |-> "VariableDeclaration",
                  variable |-> var_name,
                  value |-> value.node], dot.tokens)

parse_variable_declaration(toks) ==
    LET afterKeyword == Tail(toks) IN
    IF afterKeyword # <<>> /\ Head(afterKeyword).type = "Identifier"
    THEN LET eq == expect("Equals", Tail(afterKeyword)) IN
         IF ~eq.ok THEN eq
         ELSE DeclarationThen(Head(afterKeyword).name, parse_expression(eq.tokens))
    ELSE Err(Msg("Expected identifier after variable keyword"))

\* the then-branch loop's condition: peek != Some(Else) && peek.is_some()
ThenBranchContinuesPastElse(toks) == toks # <<>>
ThenBranchContinues(toks) == toks # <<>> /\ Head(toks) # Tok("ElseKeyword")

\* a statement loop's body after `self.parse_statement()?`, in the then-branch
UntilElseThen(stmts, s) ==
    IF ~s.ok THEN s ELSE StatementsUntilElse(Append(stmts, s.node), s.tokens)

StatementsUntilElse(stmts, toks) ==
    IF ThenBranchContinues(toks)
    THEN UntilElseThen(stmts, parse_statement(toks))
    ELSE Ok(stmts, toks)

\* the same in the else-branch and in parse: the loop is `while peek.is_some()`
UntilEndThen(stmts, s) ==
    IF ~s.ok THEN s ELSE StatementsUntilEnd(Append(stmts, s.node), s.tokens)

StatementsUntilEnd(stmts, toks) ==
    IF toks # <<>>
    THEN UntilEndThen(stmts, parse_statement(toks))
    ELSE Ok(stmts, toks)

\* parse_if_statement once the else-branch loop has ended
IfElseThen(condition, then_branch, else_statements) ==
    IF ~else_statements.ok THEN else_statements
    ELSE Ok([type |-> "IfStatement",
             condition |-> condition,
             then_branch |-> then_branch,
             else_branch |-> SomeBranch(else_statements.node)],
            else_statements.tokens)

\* parse_if_statement once the then-branch loop has ended
IfBranchesThen(condition, then_branch) ==
    IF ~then_branch.ok THEN then_branch
    ELSE IF then_branch.tokens # <<>> /\ Head(then_branch.tokens) = Tok("ElseKeyword")
    THEN IfElseThen(condition, then_branch.node,
                    StatementsUntilEnd(<<>>, Tail(then_branch.tokens)))
    ELSE Ok([type |-> "IfStatement",
             condition |-> condition,
             then_branch |-> then_branch.node,
             else_branch |-> NoneBranch],
            then_branch.tokens)

\* parse_if_statement after `let condition = self.parse_expression()?`
IfConditionThen(condition) ==
    IF ~condition.ok THEN condition
    ELSE LET then == expect("ThenKeyword", condition.tokens) IN
         IF ~then.ok THEN then
         ELSE IfBranchesThen(condition.node, StatementsUntilElse(<<>>, then.tokens))

parse_if_statement(toks) == IfConditionThen(parse_expression(Tail(toks)))

\* parse_statement after `let expr = self.parse_expression()?`
ExpressionStatementThen(expr) ==
    IF ~expr.ok THEN expr
    ELSE LET dot == expect("Dot", expr.tokens) IN
         IF ~dot.ok THEN dot ELSE Ok(expr.node, dot.tokens)

parse_statement(toks) ==
    IF toks # <<>> /\ Head(toks).type = "VariableKeyword"
    THEN parse_variable_declaration(toks)
    ELSE IF toks # <<>> /\ Head(toks).type = "IfKeyword"
    THEN parse_if_statement(toks)
    ELSE ExpressionStatementThen(parse_expression(toks))

\* Parser::parse: Ok(statements) or the first Err
parse(toks) == StatementsUntilEnd(<<>>, toks)

---------------------------------------------------------------------------
(* Interpreter.                                                            *)
(*                                                                         *)
(* The interpreter's state st is [variables, log].  log is history kept    *)
(* for the properties below and read by no operation: execute appends an   *)
(* event when a statement starts, when a condition has been evaluated,     *)
(* when a declaration has stored its value and when a statement returns.   *)
(* A statement is named by its path: <<i>> is the i-th top-level           *)
(* statement, p \o <<1, i>> the i-th statement of the then-branch of the   *)
(* if-statement p, p \o <<2, i>> the i-th of its else-branch.              *)

Number(n) == [kind |-> "Number", n |-> n]
String(s) == [kind |-> "String", s |-> s]
Boolean(b) == [kind |-> "Boolean", b |-> b]

\* a Result<Value, String> with the state it leaves; "panic" is an unwinding panic
R(status, val, st) == [status |-> status, val |-> val, st |-> st]

EmptyMap == [k \in {} |-> None]

Logged(st, e) == [st EXCEPT !.log = Append(@, e)]

\* HashMap::insert
InsertKeepsFirst(map, k, v) ==
    [x \in DOMAIN map \cup {k} |-> IF x \in DOMAIN map THEN map[x] ELSE v]
Insert(map, k, v) ==
    [x \in DOMAIN map \cup {k} |-> IF x = k THEN v ELSE map[x]]

\* (l - r).abs() < f64::EPSILON, for a fraction whose denominator is below 2^52
BelowEpsilon(d) == d.num = 0

\* r == 0.0
IsZero(r) == r.num = 0

\* return Err("Division by zero".to_string())
DivisionByZeroYieldsValue(l) == [status |-> "ok", val |-> Number(F(0))]
DivisionByZero(l) == [status |-> "err", val |-> Msg("Division by zero")]

\* (Value::String(_), Value::String(_)) => todo!()
StringOperation(operator, l, r) == [status |-> "panic", val |-> Msg("not yet implemented")]

evaluate_binary_op(operator, left, right) ==
    IF left.kind = "Number" /\ right.kind = "Number"
    THEN LET l == left.n
             r == right.n
         IN  CASE operator = "Plus" -> [status |-> "ok", val |-> Number(FAdd(l, r))]
               [] operator = "Minus" -> [status |-> "ok", val |-> Number(FSub(l, r))]
               [] operator = "Multiply" -> [status |-> "ok", val |-> Number(FMul(l, r))]
               [] operator = "Divide" ->
                    IF IsZero(r)
                    THEN DivisionByZero(l)
                    ELSE [status |-> "ok", val |-> Number(FDiv(l, r))]
               [] operator = "LT" -> [status |-> "ok", val |-> Boolean(FLt(l, r))]
               [] operator = "GT" -> [status |-> "ok", val |-> Boolean(FLt(r, l))]
               [] operator = "LTE" -> [status |-> "ok", val |-> Boolean(~FLt(r, l))]
               [] operator = "GTE" -> [status |-> "ok", val |-> Boolean(~FLt(l, r))]
               [] operator = "EQ" ->
                    [status |-> "ok", val |-> Boolean(BelowEpsilon(FAbs(FSub(l, r))))]
               [] operator = "NEQ" ->
                    [status |-> "ok", val |-> Boolean(~BelowEpsilon(FAbs(FSub(l, r))))]
               [] OTHER ->
                    [status |-> "err", val |-> MsgOf("Unknown operator for numbers", operator)]
    ELSE IF left.kind = "Boolean" /\ right.kind = "Boolean"
    THEN CASE operator = "And" -> [status |-> "ok", val |-> Boolean(left.b /\ right.b)]
           [] operator = "Or" -> [status |-> "ok", val |-> Boolean(left.b \/ right.b)]
           [] OTHER ->
                [status |-> "err", val |-> MsgOf("Unknown operator for booleans", operator)]
    ELSE IF left.kind = "String" /\ right.kind = "String"
    THEN StringOperation(operator, left.s, right.s)
    ELSE [status |-> "err", val |-> Msg("Type mismatch in binary operation")]

\* `self.execute(stmt)?` in a statement loop: whether the loop is left
StatementFailedNever(r) == FALSE
StatementFailed(r) == r.status # "ok"

\* the arm of `match condition_value` an if-statement takes
BranchIgnoresCondition(condition_value, else_branch) ==
    IF condition_value.kind = "Boolean" THEN "then" ELSE "error"
Branch(condition_value, else_branch) ==
    IF condition_value.kind = "Boolean" /\ condition_value.b THEN "then"
    ELSE IF condition_value.kind = "Boolean" /\ else_branch # NoneBranch THEN "else"
    ELSE IF condition_value.kind = "Boolean" THEN "none"
    ELSE "error"

RECURSIVE execute(_, _, _)
RECURSIVE ExecuteBlock(_, _, _, _)

\* one `self.execute(stmt)` of a statement loop, with its history
ExecuteStatement(stmt, path, st) ==
    LET r == execute(stmt, path, Logged(st, [ev |-> "exec", path |-> path]))
    IN  R(r.status, r.val,
          Logged(r.st, [ev |-> "return", path |-> path,
                        status |-> r.status, val |-> r.val]))

\* `for stmt in branch { self.execute(stmt)?; }` from the i-th statement on
ExecuteBlock(stmts, i, prefix, st) ==
    IF i > Len(stmts)
    THEN R("ok", None, st)
    ELSE LET r == ExecuteStatement(stmts[i], Append(prefix, i), st) IN
         IF StatementFailed(r) THEN r ELSE ExecuteBlock(stmts, i + 1, prefix, r.st)

execute(node, path, st) ==
    CASE node.type = "Number" -> R("ok", Number(node.n), st)
      [] node.type = "StringLiteral" -> R("ok", String(node.s), st)
      [] node.type = "Variable" ->
           IF node.name \in DOMAIN st.variables
           THEN R("ok", st.variables[node.name], st)
           ELSE R("err", MsgOf("Undefined variable", node.name), st)
      [] node.type = "BinaryOp" ->
           LET left_val == execute(node.left, path, st) IN
           IF left_val.status # "ok" THEN left_val
           ELSE LET right_val == execute(node.right, path, left_val.st) IN
                IF right_val.status # "ok" THEN right_val
                ELSE LET v == evaluate_binary_op(node.operator, left_val.val, right_val.val)
                     IN  R(v.status, v.val, right_val.st)
      [] node.type = "VariableDeclaration" ->
           LET val == execute(node.value, path, st) IN
           IF val.status # "ok" THEN val
           ELSE R("ok", val.val,
                  Logged([val.st EXCEPT !.variables = Insert(@, node.variable, val.val)],
                         [ev |-> "insert", path |-> path,
                          name |-> node.variable, val |-> val.val]))
      [] node.type = "IfStatement" ->
           LET condition_value == execute(node.condition, path, st) IN
           IF condition_value.status # "ok" THEN condition_value
           ELSE LET b == Branch(condition_value.val, node.else_branch)
                    st1 == Logged(condition_value.st,
                                  [ev |-> "cond", path |-> path,
                                   val |-> condition_value.val])
                IN  IF b = "error"
                    THEN R("err", Msg("Condition must evaluate to a boolean"), st1)
                    ELSE LET ran ==
                                 IF b = "then"
                                 THEN ExecuteBlock(node.then_branch, 1, Append(path, 1), st1)
                                 ELSE IF b = "else"
                                 THEN ExecuteBlock(node.else_branch[1], 1,
                                                   Append(path, 2), st1)
                                 ELSE R("ok", None, st1)
                         IN  IF ran.status # "ok" THEN ran
                             ELSE R("ok", Boolean(TRUE), ran.st)
      [] node.type = "BooleanLiteral" -> R("ok", Boolean(node.b), st)

---------------------------------------------------------------------------
(* Source texts.                                                           *)

RECURSIVE Text(_)
\* the lexemes, each followed by a space
Text(lexemes) ==
    IF lexemes = <<>> THEN <<>>
    ELSE Head(lexemes) \o <<CH_SPACE>> \o Text(Tail(lexemes))

RECURSIVE Concat(_)
Concat(texts) == IF texts = <<>> THEN <<>> ELSE Head(texts) \o Concat(Tail(texts))

SeqsUpTo(S, n) == UNION {[1..k -> S] : k \in 0..n}

Digit(d) == <<ARABIC_ZERO + d>>
ID_X == <<1587>>
ID_Y == <<1589>>

\* raw texts: every text of at most MaxRawLen characters of RawAlphabet
RawAlphabet ==
    {ARABIC_ZERO + 1, ARABIC_ZERO + 2, CH_COMMA, CH_HASH, CH_LT, CH_GT, CH_SPACE}
RawInputs == SeqsUpTo(RawAlphabet, MaxRawLen)

\* chains: `var x = p op p ... op p .` of at most MaxChain primaries, bare
\* or with one parenthesised sub-chain
ChainPrimaries == {Digit(0), Digit(2), Digit(3)}
ChainOperators == {<<CH_PLUS>>, <<CH_MINUS>>, <<CH_STAR>>, <<CH_SLASH>>}

\* the lexemes of the chain ps[k] os[k] ps[k+1] ..., parenthesised from the
\* i-th primary to the j-th (i >= j: no parentheses)
RECURSIVE ChainLexemes(_, _, _, _, _)
ChainLexemes(ps, os, i, j, k) ==
    IF k > Len(ps) THEN <<>>
    ELSE (IF k = i /\ i < j THEN <<<<CH_LPAREN>>>> ELSE <<>>)
         \o <<ps[k]>>
         \o (IF k = j /\ i < j THEN <<<<CH_RPAREN>>>> ELSE <<>>)
         \o (IF k < Len(ps) THEN <<os[k]>> ELSE <<>>)
         \o ChainLexemes(ps, os, i, j, k + 1)

ChainInputs ==
    {Text(<<KW_VARIABLE, ID_X, <<CH_EQUALS>>>> \o ChainLexemes(ps, os, i, j, 1) \o <<<<CH_DOT>>>>) :
        <<ps, os, i, j>> \in
            UNION {[1..k -> ChainPrimaries] \X [1..(k - 1) -> ChainOperators]
                        \X (1..k) \X (1..k) : k \in 1..MaxChain}}

\* programs: at most MaxChunks of these pieces of text, in any order
Chunks ==
    {Text(<<KW_VARIABLE, ID_X, <<CH_EQUALS>>, Digit(1), <<CH_DOT>>>>),
     Text(<<KW_VARIABLE, ID_X, <<CH_EQUALS>>, ID_X, <<CH_PLUS>>, Digit(1), <<CH_DOT>>>>),
     Text(<<KW_VARIABLE, ID_Y, <<CH_EQUALS>>, Digit(2), <<CH_SLASH>>, <<CH_LPAREN>>,
            ID_X, <<CH_MINUS>>, Digit(1), <<CH_RPAREN>>, <<CH_DOT>>>>),
     Text(<<KW_VARIABLE, ID_Y, <<CH_EQUALS>>, ID_X, <<CH_GT>>, Digit(1), <<CH_DOT>>>>),
     Text(<<KW_IF, KW_TRUE, KW_THEN>>),
     Text(<<KW_IF, KW_FALSE, KW_THEN>>),
     Text(<<KW_IF, ID_Y, KW_THEN>>),
     Text(<<KW_ELSE>>),
     Text(<<<<CH_QUOTE, ALEF, CH_QUOTE>>, <<CH_PLUS>>, <<CH_QUOTE, YEH, CH_QUOTE>>, <<CH_DOT>>>>)}

ProgramInputs == {Concat(cs) : cs \in SeqsUpTo(Chunks, MaxChunks)}

Inputs == RawInputs \cup ChainInputs \cup ProgramInputs

---------------------------------------------------------------------------
(* main: lexer::run, parser::run, interpreter::run.                        *)

NoError == Msg("none")

Init ==
    /\ input \in Inputs
    /\ chars = input
    /\ tokens = <<>>
    /\ ast = <<>>
    /\ stage = "lex"
    /\ pc = 1
    /\ variables = EmptyMap
    /\ lastValue = None
    /\ error = NoError
    /\ log = <<>>

\* lexer::run's loop: next_token returned Some(token)
LexToken ==
    /\ stage = "lex"
    /\ LET r == next_token(chars) IN
        /\ r.tok # None
        /\ tokens' = Append(tokens, r.tok)
        /\ chars' = r.chars
    /\ UNCHANGED <<input, ast, stage, pc, variables, lastValue, error, log>>

\* lexer::run's loop: next_token returned None, run returns res
LexEnd ==
    /\ stage = "lex"
    /\ LET r == next_token(chars) IN
        /\ r.tok = None
        /\ chars' = r.chars
    /\ stage' = "parse"
    /\ UNCHANGED <<input, tokens, ast, pc, variables, lastValue, error, log>>

\* parser::run: parse returned Ok(ast)
ParseOk ==
    /\ stage = "parse"
    /\ LET r == parse(tokens) IN
        /\ r.ok
        /\ ast' = r.node
    /\ stage' = "interpret"
    /\ UNCHANGED <<input, chars, tokens, pc, variables, lastValue, error, log>>

\* parser::run: parse returned Err(e), run panics
ParsePanic ==
    /\ stage = "parse"
    /\ LET r == parse(tokens) IN
        /\ ~r.ok
        /\ error' = r.err
    /\ stage' = "panic"
    /\ UNCHANGED <<input, chars, tokens, ast, pc, variables, lastValue, log>>

InterpreterState == [variables |-> variables, log |-> log]

\* Interpreter::interpret's loop: execute returned Ok
InterpretStatement ==
    /\ stage = "interpret"
    /\ pc <= Len(ast)
    /\ LET r == ExecuteStatement(ast[pc], <<pc>>, InterpreterState) IN
        /\ ~StatementFailed(r)
        /\ variables' = r.st.variables
        /\ log' = r.st.log
        /\ lastValue' = r.val
    /\ pc' = pc + 1
    /\ UNCHANGED <<input, chars, tokens, ast, stage, error>>

\* Interpreter::interpret's loop: execute returned Err(e), run prints it
InterpretError ==
    /\ stage = "interpret"
    /\ pc <= Len(ast)
    /\ LET r == ExecuteStatement(ast[pc], <<pc>>, InterpreterState) IN
        /\ StatementFailed(r)
        /\ r.status = "err"
        /\ variables' = r.st.variables
        /\ log' = r.st.log
        /\ error' = r.val
    /\ stage' = "done"
    /\ UNCHANGED <<input, chars, tokens, ast, pc, lastValue>>

\* Interpreter::interpret's loop: execute panicked
InterpretPanic ==
    /\ stage = "interpret"
    /\ pc <= Len(ast)
    /\ LET r == ExecuteStatement(ast[pc], <<pc>>, InterpreterState) IN
        /\ StatementFailed(r)
        /\ r.status = "panic"
        /\ variables' = r.st.variables
        /\ log' = r.st.log
        /\ error' = r.val
    /\ stage' = "panic"
    /\ UNCHANGED <<input, chars, tokens, ast, pc, lastValue>>

\* Interpreter::interpret returned Ok(()), run prints the variables
InterpretDone ==
    /\ stage = "interpret"
    /\ pc > Len(ast)
    /\ stage' = "done"
    /\ UNCHANGED <<input, chars, tokens, ast, pc, variables, lastValue, error, log>>

Next ==
    \/ LexToken
    \/ LexEnd
    \/ ParseOk
    \/ ParsePanic
    \/ InterpretStatement
    \/ InterpretError
    \/ InterpretPanic
    \/ InterpretDone

Spec == Init /\ [][Next]_vars

---------------------------------------------------------------------------
(* Reading the history.                                                    *)

Max(S) == CHOOSE x \in S : \A y \in S : y <= x

RECURSIVE NodeIn(_, _)
\* the statement named by path, in the statement list stmts
NodeIn(stmts, path) ==
    LET n == stmts[path[1]] IN
    IF Len(path) = 1 THEN n
    ELSE NodeIn(IF path[2] = 1 THEN n.then_branch ELSE n.else_branch[1],
                SubSeq(path, 3, Len(path)))

NodeAt(path) == NodeIn(ast, path)

\* the statement list path's statement belongs to
BlockOf(path) ==
    IF Len(path) = 1 THEN ast
    ELSE LET parent == NodeAt(SubSeq(path, 1, Len(path) - 2)) IN
         IF path[Len(path) - 1] = 1 THEN parent.then_branch ELSE parent.else_branch[1]

IsPrefix(p, q) == Len(p) <= Len(q) /\ SubSeq(q, 1, Len(p)) = p

\* the index of the last declaration of name that stored a value before
\* the i-th event, 0 if there is none
LastInsertBefore(name, i) ==
    LET S == {j \in 1..(i - 1) : log[j].ev = "insert" /\ log[j].name = name} IN
    IF S = {} THEN 0 ELSE Max(S)

\* the map the declarations executed before the i-th event leave
EnvBefore(i) ==
    LET names == {log[j].name : j \in {j \in 1..(i - 1) : log[j].ev = "insert"}}
    IN  [n \in names |-> log[LastInsertBefore(n, i)].val]

IsReturn(e, path, status) == e.ev = "return" /\ e.path = path /\ e.status = status

\* the index of the event that ends the statement started by the i-th event
ReturnOf(i) ==
    CHOOSE j \in (i + 1)..Len(log) : log[j].ev = "return" /\ log[j].path = log[i].path

---------------------------------------------------------------------------
(* C1: the environment is a last-write-wins map.  In every state the       *)
(* environment holds exactly the names some executed declaration stored,   *)
(* each with the value of the last such declaration; an if-statement whose *)
(* condition is a variable reference sees that value, and fails with       *)
(* "Undefined variable" exactly when no declaration of the name has been   *)
(* executed before; a declaration stores its value and returns it, or      *)
(* fails and stores nothing.                                               *)
C1_LastWriteWins ==
    /\ variables = EnvBefore(Len(log) + 1)
    /\ \A i \in 1..Len(log) :
        log[i].ev = "exec" =>
            LET path == log[i].path
                node == NodeAt(path)
            IN  /\ i < Len(log)
                /\ (node.type = "IfStatement" /\ node.condition.type = "Variable") =>
                     LET k == LastInsertBefore(node.condition.name, i) IN
                     IF k = 0
                     THEN /\ IsReturn(log[i + 1], path, "err")
                          /\ log[i + 1].val =
                                MsgOf("Undefined variable", node.condition.name)
                     ELSE /\ log[i + 1].ev = "cond"
                          /\ log[i + 1].path = path
                          /\ log[i + 1].val = log[k].val
                /\ node.type = "VariableDeclaration" =>
                     \/ /\ i + 2 <= Len(log)
                        /\ log[i + 1].ev = "insert"
                        /\ log[i + 1].path = path
                        /\ log[i + 1].name = node.variable
                        /\ IsReturn(log[i + 2], path, "ok")
                        /\ log[i + 2].val = log[i + 1].val
                     \/ /\ log[i + 1].ev = "return"
                        /\ log[i + 1].path = path
                        /\ log[i + 1].status # "ok"

\* a name declared twice with different values, and a reference to a
\* declared variable evaluated as an if-condition
C1_Witness ==
    /\ \E i, j \in 1..Len(log) :
        /\ i < j
        /\ log[i].ev = "insert"
        /\ log[j].ev = "insert"
        /\ log[i].name = log[j].name
        /\ log[i].val # log[j].val
    /\ \E i \in 1..Len(log) :
        /\ log[i].ev = "cond"
        /\ NodeAt(log[i].path).condition.type = "Variable"

---------------------------------------------------------------------------
(* C2: fail-stop.  Once a statement has failed, the only events that       *)
(* follow are the failing returns of the if-statements that enclose it:    *)
(* no later statement starts and no declaration stores a value.  When the  *)
(* run has ended with an error, the environment is the one left by the     *)
(* declarations executed before the failure.                               *)
FirstFailure ==
    LET S == {i \in 1..Len(log) : log[i].ev = "return" /\ log[i].status # "ok"} IN
    IF S = {} THEN 0 ELSE CHOOSE i \in S : \A j \in S : i <= j

C2_FailStop ==
    /\ \A i \in 1..Len(log) :
        (log[i].ev = "return" /\ log[i].status # "ok") =>
            /\ \A j \in (i + 1)..Len(log) :
                /\ log[j].ev = "return"
                /\ log[j].status = log[i].status
                /\ IsPrefix(log[j].path, log[i].path)
                /\ log[j].path # log[i].path
            /\ stage \in {"done", "panic"}
            /\ error = log[i].val
            /\ pc = log[Len(log)].path[1]
    /\ (stage \in {"done", "panic"} /\ FirstFailure # 0) =>
            variables = EnvBefore(FirstFailure)
    /\ (stage = "done" /\ error # NoError) => FirstFailure # 0

\* a statement failed inside an if-branch, after a declaration of the same
\* branch had been executed and with a statement still to come in the branch
C2_Witness ==
    /\ stage = "done"
    /\ \E i \in 1..Len(log) :
        /\ log[i].ev = "return"
        /\ log[i].status = "err"
        /\ Len(log[i].path) = 3
        /\ log[i].path[3] < Len(BlockOf(log[i].path))
        /\ \E j \in 1..(i - 1) :
            /\ log[j].ev = "insert"
            /\ Len(log[j].path) = 3
            /\ SubSeq(log[j].path, 1, 2) = SubSeq(log[i].path, 1, 2)
    /\ variables # EmptyMap

---------------------------------------------------------------------------
(* C3: if-statement execution.  For every if-statement whose condition has *)
(* been evaluated: a Number or String condition makes the statement fail   *)
(* with "Condition must evaluate to a boolean" and starts no statement of  *)
(* either branch; a Boolean condition starts statements of the then-branch *)
(* only (true), of the else-branch only (false, else present) or none      *)
(* (false, no else), in order from the first, and when the if-statement    *)
(* returns Ok all of them have been started and it returns Boolean(true).  *)

\* the paths of the statements started directly under the if-statement at
\* path, in the order they were started
RECURSIVE ChildrenStarted(_, _)
ChildrenStarted(path, i) ==
    IF i > Len(log) THEN <<>>
    ELSE (IF /\ log[i].ev = "exec"
             /\ Len(log[i].path) = Len(path) + 2
             /\ IsPrefix(path, log[i].path)
          THEN <<log[i].path>> ELSE <<>>)
         \o ChildrenStarted(path, i + 1)

---------------------------------------------------------------------------
(* C10: division by zero.  For every executed declaration `var v = L / R`  *)
(* whose operands evaluate to Numbers in the environment of that moment:   *)
(* if R is zero the declaration fails with "Division by zero" and stores   *)
(* nothing; otherwise it stores the Number L / R and returns it.           *)
C10_DivisionByZero ==
    /\ variables = EnvBefore(Len(log) + 1)
    /\ \A i \in 1..Len(log) :
        (/\ log[i].ev = "exec"
         /\ NodeAt(log[i].path).type = "VariableDeclaration"
         /\ NodeAt(log[i].path).value.type = "BinaryOp"
         /\ NodeAt(log[i].path).value.operator = "Divide") =>
            LET path == log[i].path
                node == NodeAt(path)
                st == [variables |-> EnvBefore(i), log |-> <<>>]
                l == execute(node.value.left, path, st)
                r == execute(node.value.right, path, st)
            IN  (/\ l.status = "ok"
                 /\ r.status = "ok"
                 /\ l.val.kind = "Number"
                 /\ r.val.kind = "Number") =>
                    IF r.val.n = F(0)
                    THEN /\ IsReturn(log[i + 1], path, "err")
                         /\ log[i + 1].val = Msg("Division by zero")
                         /\ EnvBefore(i + 2) = EnvBefore(i)
                    ELSE /\ log[i + 1].ev = "insert"
                         /\ log[i + 1].name = node.variable
                         /\ log[i + 1].val =
                                Number(Frac(l.val.n.num * r.val.n.den,
                                            l.val.n.den * r.val.n.num))
                         /\ IsReturn(log[i + 2], path, "ok")

\* the run ended on a division by a computed zero with a variable declared,
\* or on a division by a literal zero
C10_Witness ==
    /\ stage = "done"
    /\ error = Msg("Division by zero")
    /\ variables # EmptyMap
    /\ \E i \in 1..Len(log) :
        /\ log[i].ev = "return"
        /\ log[i].status = "err"
        /\ NodeAt(log[i].path).type = "VariableDeclaration"
        /\ NodeAt(log[i].path).value.type = "BinaryOp"
        /\ NodeAt(log[i].path).value.operator = "Divide"
        /\ NodeAt(log[i].path).value.right.type = "BinaryOp"

---------------------------------------------------------------------------
(* C9: reachable operators.  No token the lexer has produced is GT, LTE,   *)
(* GTE, EQ or NEQ; every BinaryOp of the parsed program has an operator    *)
(* among Plus, Minus, Multiply, Divide and LT; the tokens of a text        *)
(* without string literals are those of the same text with every `>`       *)
(* replaced by `<`; and a declaration `var v = name > number` stores       *)
(* whether the variable's value is less than the number.                   *)

RECURSIVE OperatorsOf(_)
RECURSIVE OperatorsIn(_)
\* the operators of the BinaryOp nodes of a statement list
OperatorsIn(stmts) ==
    IF stmts = <<>> THEN {} ELSE OperatorsOf(Head(stmts)) \cup OperatorsIn(Tail(stmts))

\* the operators of the BinaryOp nodes of a node
OperatorsOf(node) ==
    CASE node.type = "BinaryOp" ->
            {node.operator} \cup OperatorsOf(node.left) \cup OperatorsOf(node.right)
      [] node.type = "VariableDeclaration" -> OperatorsOf(node.value)
      [] node.type = "IfStatement" ->
            OperatorsOf(node.condition) \cup OperatorsIn(node.then_branch)
                \cup (IF node.else_branch = NoneBranch THEN {}
                      ELSE OperatorsIn(node.else_branch[1]))
      [] OTHER -> {}

ReachableOperators == {"Plus", "Minus", "Multiply", "Divide", "LT"}

\* text with every `>` replaced by `<`
LessForGreater(text) == [k \in 1..Len(text) |-> IF text[k] = CH_GT THEN CH_LT ELSE text[k]]

HasNoString == \A k \in 1..Len(input) : input[k] # CH_QUOTE

C9_ReachableOperators ==
    /\ \A k \in 1..Len(tokens) :
        tokens[k].type \notin {"GT", "LTE", "GTE", "EQ", "NEQ"}
    /\ OperatorsIn(ast) \subseteq ReachableOperators
    /\ (stage = "parse" /\ HasNoString) => tokens = run(LessForGreater(input))
    /\ \A i \in 1..Len(log) :
        (/\ log[i].ev = "insert"
         /\ NodeAt(log[i].path).value.type = "BinaryOp"
         /\ NodeAt(log[i].path).value.operator = "LT"
         /\ NodeAt(log[i].path).value.left.type = "Variable"
         /\ NodeAt(log[i].path).value.right.type = "Number") =>
            LET node == NodeAt(log[i].path).value
                k == LastInsertBefore(node.left.name, i)
            IN  /\ k # 0
                /\ log[k].val.kind = "Number"
                /\ log[i].val = Boolean(FLt(log[k].val.n, node.right.n))

\* a text with `>` has been lexed and parsed, and its comparison evaluated
C9_Witness ==
    /\ \E k \in 1..Len(input) : input[k] = CH_GT
    /\ "LT" \in OperatorsIn(ast)
    /\ \E i \in 1..Len(log) :
        /\ log[i].ev = "insert"
        /\ log[i].val.kind = "Boolean"

---------------------------------------------------------------------------
(* C6: numeral value.  When a text starts with a numeric literal (a digit  *)
(* followed by digits and `,` separators), the first token is the Number   *)
(* whose value is the place-value sum of the literal's digits, separators  *)
(* removed.                                                                *)

IsNumeralChar(c) == c \in ArabicDigits \/ c = CH_COMMA

\* the length of the longest prefix of text made of digits and separators
RECURSIVE LiteralLength(_)
LiteralLength(text) ==
    IF text # <<>> /\ IsNumeralChar(Head(text)) THEN 1 + LiteralLength(Tail(text)) ELSE 0

IsDigit(c) == c \in ArabicDigits

RECURSIVE Power10(_)
Power10(k) == IF k = 0 THEN 1 ELSE 10 * Power10(k - 1)

RECURSIVE PlaceSum(_, _)
\* the sum of digits[k] * 10^(Len(digits) - k) from the k-th digit on
PlaceSum(digits, k) ==
    IF k > Len(digits) THEN 0
    ELSE (digits[k] - ARABIC_ZERO) * Power10(Len(digits) - k) + PlaceSum(digits, k + 1)

PlaceValue(literal) == PlaceSum(SelectSeq(literal, IsDigit), 1)

C6_NumeralValue ==
    (input # <<>> /\ input[1] \in ArabicDigits /\ tokens # <<>>) =>
        /\ tokens[1].type = "Number"
        /\ tokens[1].n = F(PlaceValue(SubSeq(input, 1, LiteralLength(input))))

\* a literal with two digits and with consecutive and trailing separators
C6_Witness ==
    /\ Len(input) >= 4
    /\ input[1] \in ArabicDigits
    /\ input[2] = CH_COMMA
    /\ input[3] = CH_COMMA
    /\ input[4] \in ArabicDigits
    /\ tokens # <<>>
    /\ tokens[1].n.num >= 10

---------------------------------------------------------------------------
(* C4: operator precedence and associativity.  For every chain statement   *)
(* `var x = p op p ... .` (bare or with one parenthesised sub-chain) the   *)
(* parser succeeds and builds the tree that splits the chain at its last   *)
(* + or - outside parentheses, or, when there is none, at its last * or /  *)
(* outside parentheses; and a bare chain a op1 b op2 c evaluates to        *)
(* a op1 (b op2 c) when op2 is * or / and op1 is + or -, and to            *)
(* (a op1 b) op2 c otherwise.                                              *)

RECURSIVE DepthAt(_, _)
\* how many parentheses are open before the i-th token
DepthAt(toks, i) ==
    IF i <= 1 THEN 0
    ELSE DepthAt(toks, i - 1)
         + (IF toks[i - 1].type = "LeftParen" THEN 1
            ELSE IF toks[i - 1].type = "RightParen" THEN -1 ELSE 0)

TopLevel(toks, types) ==
    {i \in 1..Len(toks) : toks[i].type \in types /\ DepthAt(toks, i) = 0}

RECURSIVE TreeOf(_)
TreeOf(toks) ==
    LET add == TopLevel(toks, {"Plus", "Minus"})
        mul == TopLevel(toks, {"Multiply", "Divide"})
        i == IF add # {} THEN Max(add) ELSE Max(mul)
    IN  IF add # {} \/ mul # {}
        THEN [type |-> "BinaryOp",
              left |-> TreeOf(SubSeq(toks, 1, i - 1)),
              operator |-> toks[i].type,
              right |-> TreeOf(SubSeq(toks, i + 1, Len(toks)))]
        ELSE IF Len(toks) = 1
        THEN [type |-> "Number", n |-> toks[1].n]
        ELSE TreeOf(SubSeq(toks, 2, Len(toks) - 1))

\* l op r on fractions; ok is FALSE for a division by zero
Arith(op, l, r) ==
    IF ~l.ok \/ ~r.ok \/ (op = "Divide" /\ r.n.num = 0)
    THEN [ok |-> FALSE, n |-> F(0)]
    ELSE [ok |-> TRUE,
          n |-> CASE op = "Plus" -> Frac(l.n.num * r.n.den + r.n.num * l.n.den,
                                         l.n.den * r.n.den)
                  [] op = "Minus" -> Frac(l.n.num * r.n.den - r.n.num * l.n.den,
                                          l.n.den * r.n.den)
                  [] op = "Multiply" -> Frac(l.n.num * r.n.num, l.n.den * r.n.den)
                  [] op = "Divide" -> Frac(l.n.num * r.n.den, l.n.den * r.n.num)]

Lit(tok) == [ok |-> TRUE, n |-> tok.n]

\* the value of the bare chain a op1 b op2 c
ChainValue(mid) ==
    IF mid[4].type \in {"Multiply", "Divide"} /\ mid[2].type \in {"Plus", "Minus"}
    THEN Arith(mid[2].type, Lit(mid[1]), Arith(mid[4].type, Lit(mid[3]), Lit(mid[5])))
    ELSE Arith(mid[4].type, Arith(mid[2].type, Lit(mid[1]), Lit(mid[3])), Lit(mid[5]))

C4_Precedence ==
    (stage \in {"interpret", "done", "panic"} /\ input \in ChainInputs) =>
        LET mid == SubSeq(tokens, 4, Len(tokens) - 1) IN
        /\ stage # "panic"
        /\ ast = <<[type |-> "VariableDeclaration",
                    variable |-> ID_X,
                    value |-> TreeOf(mid)]>>
        /\ (stage = "done" /\ Len(mid) = 5 /\ mid[1].type = "Number"
                /\ mid[5].type = "Number") =>
                IF ChainValue(mid).ok
                THEN /\ error = NoError
                     /\ DOMAIN variables = {ID_X}
                     /\ variables[ID_X] = Number(ChainValue(mid).n)
                ELSE /\ error = Msg("Division by zero")
                     /\ variables = EmptyMap

\* `var x = 2 + 3 * 3 .` has been evaluated: x is 11
C4_Witness ==
    /\ stage = "done"
    /\ input \in ChainInputs
    /\ Len(tokens) = 9
    /\ tokens[4] = [type |-> "Number", n |-> F(2)]
    /\ tokens[5] = Tok("Plus")
    /\ tokens[6] = [type |-> "Number", n |-> F(3)]
    /\ tokens[7] = Tok("Multiply")
    /\ tokens[8] = [type |-> "Number", n |-> F(3)]
    /\ variables[ID_X] = Number(F(11))

---------------------------------------------------------------------------
(* C8: if-statement parsing.  On the tokens handed to the parser: an       *)
(* if-statement parsed from any if-keyword leaves no token when it         *)
(* succeeds; the if-statement at the last if-keyword before the first      *)
(* else-keyword has as its then-branch the statements between its          *)
(* then-keyword and that else-keyword, and as its else-branch all the      *)
(* statements after it; the if-statement at the last if-keyword, when no   *)
(* else-keyword follows it, has as its then-branch all the statements      *)
(* after its then-keyword and no else-branch.  In the parsed program an    *)
(* if-statement is the last statement of the list it is in, and an         *)
(* if-statement whose then-branch ends with an if-statement has no         *)
(* else-branch.                                                            *)

Positions(type) == {k \in 1..Len(tokens) : tokens[k].type = type}
Min(S) == CHOOSE x \in S : \A y \in S : x <= y
From(k) == SubSeq(tokens, k, Len(tokens))

RECURSIVE IfStatementsLast(_)
IfStatementsLast(stmts) ==
    \A i \in 1..Len(stmts) :
        stmts[i].type = "IfStatement" =>
            /\ i = Len(stmts)
            /\ IfStatementsLast(stmts[i].then_branch)
            /\ stmts[i].else_branch # NoneBranch =>
                    IfStatementsLast(stmts[i].else_branch[1])
            /\ (/\ stmts[i].then_branch # <<>>
                /\ stmts[i].then_branch[Len(stmts[i].then_branch)].type = "IfStatement") =>
                    stmts[i].else_branch = NoneBranch

\* the if-statement at the if-keyword k, whose then-keyword is the first
\* after k, with the else-keyword at e (0: none) ending its then-branch
IfParsedAs(k, e) ==
    LET t == Min({j \in Positions("ThenKeyword") : j > k})
        condition == parse_expression(SubSeq(tokens, k + 1, t - 1))
        body == parse(SubSeq(tokens, t + 1, IF e = 0 THEN Len(tokens) ELSE e - 1))
        rest == parse(From(e + 1))
        r == parse_if_statement(From(k))
    IN  (/\ condition.ok
         /\ condition.tokens = <<>>
         /\ body.ok
         /\ e # 0 => rest.ok) =>
            /\ r.ok
            /\ r.tokens = <<>>
            /\ r.node = [type |-> "IfStatement",
                         condition |-> condition.node,
                         then_branch |-> body.node,
                         else_branch |-> IF e = 0 THEN NoneBranch
                                         ELSE SomeBranch(rest.node)]

C8_IfParsing ==
    /\ stage = "parse" =>
        /\ \A k \in Positions("IfKeyword") :
            parse_if_statement(From(k)).ok => parse_if_statement(From(k)).tokens = <<>>
        /\ Positions("ElseKeyword") # {} =>
            LET e == Min(Positions("ElseKeyword"))
                ifs == {k \in Positions("IfKeyword") : k < e}
            IN  (/\ ifs # {}
                 /\ \E j \in Positions("ThenKeyword") : Max(ifs) < j /\ j < e) =>
                    IfParsedAs(Max(ifs), e)
        /\ Positions("IfKeyword") # {} =>
            LET k == Max(Positions("IfKeyword")) IN
            (/\ \A e \in Positions("ElseKeyword") : e < k
             /\ \E j \in Positions("ThenKeyword") : k < j) =>
                IfParsedAs(k, 0)
    /\ stage = "interpret" => IfStatementsLast(ast)

\* a program has been parsed in which the else-branch belongs to the inner
\* of two nested if-statements
C8_Witness ==
    /\ stage = "interpret"
    /\ ast # <<>>
    /\ ast[Len(ast)].type = "IfStatement"
    /\ ast[Len(ast)].else_branch = NoneBranch
    /\ ast[Len(ast)].then_branch # <<>>
    /\ LET inner == ast[Len(ast)].then_branch[Len(ast[Len(ast)].then_branch)] IN
        /\ inner.type = "IfStatement"
        /\ inner.then_branch # <<>>
        /\ inner.else_branch # NoneBranch

---------------------------------------------------------------------------
(* C5: lexer skip-and-continue.  When the scanner, at a token start,       *)
(* meets a character matched by no rule, the lexer goes on scanning after  *)
(* that character, having emitted no token for it.                         *)

Matched ==
    WhiteSpace
        \cup {CH_PLUS, CH_MINUS, CH_STAR, CH_SLASH, CH_LT, CH_GT, CH_LPAREN, CH_RPAREN,
              CH_EQUALS, CH_DOT, CH_QUOTE}
        \cup ArabicDigits \cup IdentifierStart

AtUnmatched == skip_whitespace(chars) # <<>> /\ Head(skip_whitespace(chars)) \notin Matched

C5_SkipAndContinue ==
    [][(stage = "lex" /\ AtUnmatched) =>
            /\ stage' = "lex"
            /\ tokens' = tokens
            /\ chars' = Tail(skip_whitespace(chars))]_vars

---------------------------------------------------------------------------
(* C7: error propagation.  Every statement the evaluator executes hands   *)
(* its caller a value or an error value: none, a binary operation on two   *)
(* Strings included, aborts the run.                                       *)
C7_ErrorValues ==
    \A i \in 1..Len(log) :
        log[i].ev = "return" => log[i].status \in {"ok", "err"}

====
